---------------------------- MODULE Spec2Model ----------------------------
(***************************************************************************)
(* Model of demo(n) in hiplot/fetchers_demo.py (lines 64-133): the fake    *)
(* population-based-training run that fills xp.datapoints.                 *)
(*                                                                         *)
(* Identifiers.  A population member's uid is f"init{i}" or                *)
(* f"continue{k}" and is modelled as the record [kind, num].  A checkpoint *)
(* uid is f"{p['uid']}_{uuid.uuid4().hex[:6]}"; the member uid holds no    *)
(* '_' and the suffix always has six characters, so the string determines  *)
(* both parts and is modelled as the record [member, suffix].  Two         *)
(* checkpoint uids are the same string exactly when both parts agree.      *)
(*                                                                         *)
(* Random draws.  random.random() in the cull, random.choice in the        *)
(* respawn and uuid4 in the checkpoint uid are nondeterministic choices.   *)
(* Each draw has a usual outcome (the member is kept, the newest record is *)
(* chosen, the suffix was never drawn before).  A run explores at most     *)
(* MaxRare other outcomes, counted down in rare_left: a member dropped, a  *)
(* whole population dropped at once, the oldest record of the pool chosen, *)
(* the suffix of the member's last checkpoint drawn again.                 *)
(* fake_params() is identified with the index of the call that produced    *)
(* the mapping, fake_metrics(t) with t and the index of the call.          *)
(***************************************************************************)
EXTENDS Integers, Sequences, FiniteSets

\* ---- bounds of the exploration ----
MaxGen == 3        \* n ranges over 0..MaxGen
MaxRare == 2       \* draws of a run explored beyond their usual outcome

\* ---- constants of the program ----
InitPopSize == 10  \* range(10), line 112
PopCap == 10       \* range(10 - len(current_pop)), line 125
Window == 10       \* xp.datapoints[-10:], line 127

VARIABLES
    n,             \* the argument of demo
    pc,            \* position in demo: "for", "cull", "respawn", "done"
    task_idx,      \* loop variable of line 114
    current_pop,   \* line 112
    continue_num,  \* line 113
    datapoints,    \* xp.datapoints
    rare_left      \* unusual draws the run may still explore

vars == <<n, pc, task_idx, current_pop, continue_num, datapoints, rare_left>>

\* ---- identifiers ----
InitUid(i) == [kind |-> "init", num |-> i]
ContinueUid(k) == [kind |-> "continue", num |-> k]
\* Python's None, in the shape of a checkpoint uid so that it compares with one
None == [member |-> [kind |-> "None", num |-> 0], suffix |-> 0]
CkptUid(member_uid, suffix) == [member |-> member_uid, suffix |-> suffix]

\* ---- samplers ----
\* the mapping returned by the call-th call of fake_params (calls counted from 1)
fake_params(call) == call
\* fake_metrics(t): 'time' is t plus a jitter of at most 0.2, kept as t
fake_metrics(t, call) == [time |-> t, sample |-> call]

\* ---- helpers on sequences ----
\* s[-k:]
LastK(s, k) == IF Len(s) <= k THEN s ELSE SubSeq(s, Len(s) - k + 1, Len(s))
\* [s[i] for i in 1..Len(s) if i not in D], order kept
RECURSIVE Keep(_, _, _)
Keep(s, D, i) ==
    IF i > Len(s) THEN <<>>
    ELSE (IF i \in D THEN <<>> ELSE <<s[i]>>) \o Keep(s, D, i + 1)

\* the subsets of S with at most k elements
RECURSIVE SubsetsUpTo(_, _)
SubsetsUpTo(S, k) ==
    IF k <= 0 THEN {{}}
    ELSE LET smaller == SubsetsUpTo(S, k - 1)
         IN smaller \cup {T \cup {x} : T \in smaller, x \in S}

\* ---- the pieces of demo ----
\* (variant: a respawned member starts without its parent)
MemberWithoutParent(uid, params, last) ==
    [uid |-> uid, params |-> params, last_ckpt_uid |-> None]
\* lines 112 and 128: dict(uid=..., params=..., last_ckpt_uid=...)
Member(uid, params, last) == [uid |-> uid, params |-> params, last_ckpt_uid |-> last]
\* (variant: range(9))
InitialPopShort ==
    [i \in 1..(InitPopSize - 1) |-> [uid |-> InitUid(i - 1), params |-> fake_params(i),
                                      last_ckpt_uid |-> None]]
\* line 112
InitialPop == [i \in 1..InitPopSize |-> Member(InitUid(i - 1), fake_params(i), None)]

\* line 118: hip.Datapoint(uid=ckpt_uid, from_uid=p['last_ckpt_uid'], values={**params, **metrics})
Datapoint(p, ckpt_uid, metrics) ==
    [uid |-> ckpt_uid, from_uid |-> p.last_ckpt_uid,
     params |-> p.params, time |-> metrics.time, sample |-> metrics.sample]

\* (variant: line 119 left out)
SetLastCkptSkipped(p, ckpt_uid) == p
\* line 119
SetLastCkpt(p, ckpt_uid) == [p EXCEPT !.last_ckpt_uid = ckpt_uid]

\* (variant: range(9 - len(current_pop)))
RespawnCountShort(pop) == IF PopCap - 1 - Len(pop) > 0 THEN PopCap - 1 - Len(pop) ELSE 0
\* (variant: the loop runs once more than needed)
RespawnCountLong(pop) == IF PopCap - Len(pop) > 0 THEN PopCap - Len(pop) + 1 ELSE 0
\* line 125: the number of iterations of range(10 - len(current_pop))
RespawnCount(pop) == IF PopCap - Len(pop) > 0 THEN PopCap - Len(pop) ELSE 0

\* (variant: xp.datapoints[-11:])
PoolWide(dps) == LastK(dps, Window + 1)
\* (variant: xp.datapoints)
PoolAll(dps) == dps
\* line 127: xp.datapoints[-10:]
Pool(dps) == LastK(dps, Window)

\* (variant: range(n + 1))
HasNextInclusive(i, count) == i <= count
\* line 114: range(n) has a next index
HasNext(i, count) == i < count

\* ---- exploration of the random draws ----
\* uuid4().hex[:6] for the checkpoint of p, the record after dps: a suffix never
\* drawn before, or, when the draw repeats, the one in p's last_ckpt_uid
Suffix(p, dps, repeats) ==
    IF repeats /\ p.last_ckpt_uid # None THEN p.last_ckpt_uid.suffix ELSE Len(dps) + 1
\* sets of positions of current_pop whose draw repeats, within the budget
RepeatSets(pop) ==
    SubsetsUpTo({i \in 1..Len(pop) : pop[i].last_ckpt_uid # None}, rare_left)
\* sets of positions the cull drops: any set within the budget, the whole
\* population counting as one
DropCost(D, pop) == IF D = 1..Len(pop) /\ D # {} THEN 1 ELSE Cardinality(D)
DropSets(pop) ==
    SubsetsUpTo(1..Len(pop), rare_left) \cup (IF rare_left > 0 THEN {1..Len(pop)} ELSE {})
\* the draws of random.choice in a respawn loop of count iterations, as the
\* sequences of positions of a pool of size positions: the newest record, or
\* within the budget the oldest one
Oldest(size) == IF size > 1 THEN {1} ELSE {}
RECURSIVE PickSeqs(_, _, _)
PickSeqs(count, size, budget) ==
    IF count = 0 THEN {<<>>}
    ELSE {<<size>> \o ks : ks \in PickSeqs(count - 1, size, budget)}
         \cup (IF budget > 0
               THEN {<<k>> \o ks : k \in Oldest(size),
                                   ks \in PickSeqs(count - 1, size, budget - 1)}
               ELSE {})
\* the draws of a sequence of picks that are not the newest record
OlderPicks(ks, size) == Cardinality({i \in 1..Len(ks) : ks[i] # size})

\* lines 116-119, "for p in current_pop", from position i on: the population
\* and the datapoints when the loop ends.  R: the positions whose uuid4 repeats
RECURSIVE DropCheckpoints(_, _, _, _, _)
DropCheckpoints(pop, dps, t, R, i) ==
    IF i > Len(pop) THEN [pop |-> pop, dps |-> dps]
    ELSE LET p == pop[i]
             ckpt_uid == CkptUid(p.uid, Suffix(p, dps, i \in R))
             metrics == fake_metrics(t, Len(dps) + 1)
         IN DropCheckpoints([pop EXCEPT ![i] = SetLastCkpt(p, ckpt_uid)],
                            Append(dps, Datapoint(p, ckpt_uid, metrics)),
                            t, R, i + 1)

\* lines 125-128, "for _ in range(10 - len(current_pop))", from iteration i
\* on: the population and continue_num when the loop ends.  ks: the positions
\* of the pool random.choice returns, one per iteration
RECURSIVE RespawnLoop(_, _, _, _, _)
RespawnLoop(pop, num, pool, ks, i) ==
    IF i > Len(ks) THEN [pop |-> pop, num |-> num]
    ELSE LET parent == pool[ks[i]]
         IN RespawnLoop(Append(pop, Member(ContinueUid(num + 1),
                                           fake_params(InitPopSize + num + 1),
                                           parent.uid)),
                        num + 1, pool, ks, i + 1)

Init ==
    /\ n \in 0..MaxGen
    /\ pc = "for"
    /\ task_idx = 0
    /\ current_pop = InitialPop
    /\ continue_num = 0
    /\ datapoints = <<>>
    /\ rare_left = MaxRare

\* line 114 hands out the next index, lines 116-119 drop all checkpoints
Checkpoints ==
    /\ pc = "for"
    /\ HasNext(task_idx, n)
    /\ \E R \in RepeatSets(current_pop) :
          LET r == DropCheckpoints(current_pop, datapoints, task_idx, R, 1)
          IN /\ current_pop' = r.pop
             /\ datapoints' = r.dps
             /\ rare_left' = rare_left - Cardinality(R)
    /\ pc' = "cull"
    /\ UNCHANGED <<n, task_idx, continue_num>>

\* line 114 finds range(n) exhausted; lines 129-133 set the type hints and return xp
Finish ==
    /\ pc = "for"
    /\ ~HasNext(task_idx, n)
    /\ pc' = "done"
    /\ UNCHANGED <<n, task_idx, current_pop, continue_num, datapoints, rare_left>>

\* line 122
Cull ==
    /\ pc = "cull"
    /\ \E D \in DropSets(current_pop) :
          /\ current_pop' = Keep(current_pop, D, 1)
          /\ rare_left' = rare_left - DropCost(D, current_pop)
    /\ pc' = "respawn"
    /\ UNCHANGED <<n, task_idx, continue_num, datapoints>>

\* lines 125-128, the whole respawn loop; line 114 is next and takes the next
\* index of range(n).  random.choice raises IndexError on an empty pool: the
\* action is then disabled, demo does not go on
Respawn ==
    /\ pc = "respawn"
    /\ LET pool == Pool(datapoints)
           count == RespawnCount(current_pop)
       IN /\ count > 0 => pool # <<>>
          /\ \E ks \in PickSeqs(count, Len(pool), rare_left) :
                LET r == RespawnLoop(current_pop, continue_num, pool, ks, 1)
                IN /\ current_pop' = r.pop
                   /\ continue_num' = r.num
                   /\ rare_left' = rare_left - OlderPicks(ks, Len(pool))
    /\ pc' = "for"
    /\ task_idx' = task_idx + 1
    /\ UNCHANGED <<n, datapoints>>

Next == Checkpoints \/ Finish \/ Cull \/ Respawn

Spec == Init /\ [][Next]_vars

\* ======================= the claims ===================================
\* Vocabulary.  The generation of a record is its 'time' value (task_idx at
\* line 118); the member that emitted it is the member part of its uid.
Recs == 1..Len(datapoints)
Gen(j) == datapoints[j].time
Emitter(j) == datapoints[j].uid.member
\* the positions of the last ten records, by index
LastTen ==
    IF Len(datapoints) <= 10 THEN Recs ELSE (Len(datapoints) - 9)..Len(datapoints)
\* m has emitted a record (the newest records are looked at first)
HasEmitted(m) ==
    \/ \E j \in LastTen : Emitter(j) = m.uid
    \/ \E j \in Recs : Emitter(j) = m.uid
FirstOfMember(j) == \A i \in 1..(j - 1) : Emitter(i) # Emitter(j)
Respawned(m) == m.uid.kind = "continue"
\* The records the loop of lines 116-119 has just appended.  datapoints is only
\* ever appended to, so a property that relates a record to the records before
\* it holds of every record of a run if it holds of each record in the state
\* that follows its emission; the claims about records are stated that way.
JustEmitted == IF pc = "cull" THEN {j \in Recs : Gen(j) = task_idx} ELSE {}
\* the records of the generation before that of the records just emitted
OneBefore == {i \in Recs : Gen(i) + 1 = task_idx}

\* C1: every record with a non-null from_uid has it equal to the uid of a record
\* of a strictly earlier generation, and to the uid of no record of the same or a
\* later generation (no forward reference, no same-generation reference, no
\* self-reference).
C1_BackReferenceOnlyEarlier ==
    \A j \in Recs :
        datapoints[j].from_uid # None =>
            /\ \E i \in Recs : datapoints[i].uid = datapoints[j].from_uid /\ Gen(i) < Gen(j)
            /\ \A i \in Recs : datapoints[i].uid = datapoints[j].from_uid => Gen(i) < Gen(j)

\* C2: the uids of the emitted records are pairwise distinct.
C2_UidsDistinct ==
    \A i, j \in Recs : i # j => datapoints[i].uid # datapoints[j].uid

\* C3: once the cull and the respawn of a generation are over the population has
\* exactly 10 members; after the cull alone it has between 0 and 10.
C3_PopulationRestored ==
    /\ (pc \in {"for", "done"} /\ task_idx >= 1) => Len(current_pop) = 10
    /\ pc = "respawn" => Len(current_pop) \in 0..10
\* a cull dropped all ten members and the respawn brought ten new ones
C3_Witness ==
    /\ pc = "for"
    /\ task_idx >= 1
    /\ Len(current_pop) = 10
    /\ \A i \in 1..Len(current_pop) : Respawned(current_pop[i]) /\ ~HasEmitted(current_pop[i])

\* C4: demo(0) emits nothing, culls and respawns nothing, and leaves the ten
\* root members init0..init9, each with last_ckpt_uid None.
C4_ZeroGenerations ==
    n = 0 =>
        /\ datapoints = <<>>
        /\ pc \in {"for", "done"}
        /\ continue_num = 0
        /\ Len(current_pop) = 10
        /\ \A i \in 1..Len(current_pop) :
              /\ current_pop[i].uid = InitUid(i - 1)
              /\ current_pop[i].last_ckpt_uid = None
C4_Witness == n = 0 /\ pc = "done"

C6_NullUntilFirstCheckpoint ==
    /\ \A i \in 1..Len(current_pop) :
          ~HasEmitted(current_pop[i]) => current_pop[i].last_ckpt_uid = None
    /\ \A j \in Recs : FirstOfMember(j) => datapoints[j].from_uid = None
\* C6 amended: an initial member has last_ckpt_uid None until its first
\* checkpoint and its first record has from_uid None; a respawned member starts
\* with the uid of its parent record, and its first record has that non-null
\* from_uid, the uid of a record of another member.
C6_NullUntilFirstCheckpointOfRoots ==
    /\ \A i \in 1..Len(current_pop) :
          IF Respawned(current_pop[i])
          THEN \/ HasEmitted(current_pop[i])
               \/ \E j \in Recs : current_pop[i].last_ckpt_uid = datapoints[j].uid
          ELSE \/ current_pop[i].last_ckpt_uid = None
               \/ HasEmitted(current_pop[i])
    /\ \A j \in JustEmitted :
          FirstOfMember(j) =>
              IF Emitter(j).kind = "continue"
              THEN /\ datapoints[j].from_uid # None
                   /\ datapoints[j].from_uid.member # Emitter(j)
                   /\ \E i \in 1..(j - 1) : datapoints[j].from_uid = datapoints[i].uid
              ELSE datapoints[j].from_uid = None
\* a respawned member has emitted its first checkpoint, and a root has too
C6_Witness ==
    /\ \E j \in JustEmitted : FirstOfMember(j) /\ Emitter(j).kind = "continue"
    /\ \E j \in Recs : FirstOfMember(j) /\ Emitter(j).kind = "init"

\* C7: when a member that emitted at generation g emits again at g+1 (it
\* survived the cull of g), the new record has the uid of the earlier one as
\* from_uid and the same parameter mapping, with a fresh sample of the metrics.
C7_SurvivorKeepsParams ==
    \A j \in JustEmitted :
        \A i \in OneBefore :
            Emitter(i) = Emitter(j) =>
                /\ datapoints[j].from_uid = datapoints[i].uid
                /\ datapoints[j].params = datapoints[i].params
                /\ datapoints[j].sample # datapoints[i].sample
\* a respawned member survived a cull and emitted its second checkpoint
C7_Witness ==
    \E j \in JustEmitted :
        \E i \in OneBefore :
            /\ Emitter(i) = Emitter(j)
            /\ Emitter(i).kind = "continue"

\* C8: a member the respawn has created, until it emits, has as last_ckpt_uid
\* the uid of one of the last 10 records of datapoints (of any of them when
\* there are fewer), and there is at least one such record.
C8_ParentFromLastTen ==
    \A i \in 1..Len(current_pop) :
        (Respawned(current_pop[i]) /\ ~HasEmitted(current_pop[i])) =>
            /\ datapoints # <<>>
            /\ \E j \in LastTen : current_pop[i].last_ckpt_uid = datapoints[j].uid
\* with more than 10 records emitted, a new member got the oldest record of the
\* window as parent, a record of a member that is still in the population
C8_Witness ==
    /\ Len(datapoints) > 10
    /\ \E i \in 1..Len(current_pop) :
          /\ Respawned(current_pop[i]) /\ ~HasEmitted(current_pop[i])
          /\ current_pop[i].last_ckpt_uid = datapoints[Len(datapoints) - 9].uid
          /\ \E k \in 1..Len(current_pop) :
                current_pop[k].uid = datapoints[Len(datapoints) - 9].uid.member

\* C9: every generation emits exactly 10 records, one per member of the
\* population at its start; after g generations there are 10*g records and
\* demo(n) returns 10*n.
C9_TenPerGeneration ==
    /\ pc \in {"for", "done"} => Len(datapoints) = 10 * task_idx
    /\ pc \in {"cull", "respawn"} => Len(datapoints) = 10 * (task_idx + 1)
    /\ pc = "done" => Len(datapoints) = 10 * n
    /\ \A j \in Recs : Gen(j) = (j - 1) \div 10
    /\ pc = "cull" =>
          \A i \in 1..Len(current_pop) :
              Emitter(Len(datapoints) - Len(current_pop) + i) = current_pop[i].uid
\* a run of at least two generations in which members were culled has returned
C9_Witness == pc = "done" /\ n >= 2 /\ continue_num >= 2

=============================================================================
